---- MODULE Spec2Model ----
(***************************************************************************)
(* Model of the geospatial transform core (src/src/geospatialTransform.js) *)
(* and of the callers that reach it.                                       *)
(*                                                                         *)
(* JavaScript numbers are modelled as tagged values: a finite number is a  *)
(* fixed-point integer, and NaN, +Infinity, -Infinity and undefined are    *)
(* kept as their own values with the IEEE-754 rules for the operations the *)
(* code applies to them.  Fixed-point units:                               *)
(*   degrees (latitude, longitude, heading)  1 unit = 1/DegScale degree    *)
(*   metres  (altitude, offsets, ECEF)       1 unit = 1/MeterScale metre   *)
(*   radians and trigonometric ratios        1 unit = 1/AngleScale         *)
(***************************************************************************)
EXTENDS Integers, Sequences, FiniteSets, TLC

DegScale   == 10^6
MeterScale == 10^1
AngleScale == 10^4

----------------------------------------------------------------------------
(* JavaScript number values *)

Fin(n)    == [k |-> "fin", v |-> n]
NaN       == [k |-> "nan", v |-> 0]
PosInf    == [k |-> "inf", v |-> 1]
NegInf    == [k |-> "inf", v |-> -1]
Undefined == [k |-> "undefined", v |-> 0]

\* two zeros of this resolution that JavaScript tells from +0: the negative
\* zero -0, and a non-zero double too small for the fixed point (Math.cos
\* never returns 0: at the double nearest pi/2 it is 6.1e-17)
NegZero   == [k |-> "fin", v |-> 0, zero |-> "negative"]
Underflow == [k |-> "fin", v |-> 0, zero |-> "underflow"]

IsNegZero(x)   == "zero" \in DOMAIN x /\ x.zero = "negative"
IsUnderflow(x) == "zero" \in DOMAIN x /\ x.zero = "underflow"

Deg(whole, micro) == Fin(whole * DegScale + micro)
Meters(m)         == Fin(m * MeterScale)

\* ToNumber: undefined becomes NaN, numbers are unchanged
ToNumber(a) == IF a.k = "undefined" THEN NaN ELSE a

\* Number.isFinite / the negation of isNaN
isFinite(a) == a.k = "fin"
isNaN(a)    == ToNumber(a).k = "nan"

\* const name = v; rest: JavaScript evaluates the declaration before the
\* statements that follow it.  F is the rest, as a function of the name.
Let(v, F(_)) == CASE v = v -> F(v)

Abs(n) == IF n < 0 THEN -n ELSE n
Sgn(n) == IF n < 0 THEN -1 ELSE IF n > 0 THEN 1 ELSE 0
Min(a, b) == IF a <= b THEN a ELSE b
Max(a, b) == IF a <= b THEN b ELSE a

\* <<q, r>> reduced so that r < c
Carry(q, r, c) == <<q + (r \div c), r % c>>

\* <<q, r>> with a * b = q * c + r and 0 <= r < c, for a, b >= 0 and
\* 0 < c < 2^29, computed digit by digit of b in a base that keeps every
\* intermediate within the integer width
RECURSIVE DivMod(_, _, _, _)
DivModDigit(h, a, d, c, base) ==
  Carry(h[1] * base + d * (a \div c), h[2] * base + d * (a % c), c)

DivMod(a, b, c, base) ==
  IF b = 0 THEN <<0, 0>>
  ELSE DivModDigit(DivMod(a, b \div base, c, base), a, b % base, c, base)

\* the same, directly when the product fits the integer width
Product(a, b, c) ==
  IF a = 0 \/ b <= 2147483647 \div a
  THEN <<(a * b) \div c, (a * b) % c>>
  ELSE DivMod(a, b, c, (2^30) \div c)

Nearest(qr, c) == qr[1] + (IF 2 * qr[2] >= c THEN 1 ELSE 0)

\* a * b / c rounded to the nearest integer, ties away from zero
MulDiv(a, b, c) == Sgn(a) * Sgn(b) * Nearest(Product(Abs(a), Abs(b), c), c)

\* IEEE-754 unary minus, addition, subtraction
NegNumber(x) == IF x.k = "nan" THEN NaN ELSE [x EXCEPT !.v = -x.v]

FNeg(a) == NegNumber(ToNumber(a))

AddNumbers(x, y) ==
  IF x.k = "nan" \/ y.k = "nan" THEN NaN
  ELSE IF x.k = "inf" /\ y.k = "inf" THEN (IF x.v = y.v THEN x ELSE NaN)
  ELSE IF x.k = "inf" THEN x
  ELSE IF y.k = "inf" THEN y
  ELSE Fin(x.v + y.v)

FAdd(a, b) == AddNumbers(ToNumber(a), ToNumber(b))

FSub(a, b) == AddNumbers(ToNumber(a), FNeg(b))

\* IEEE-754 product x * y / scale: the factors are fixed-point values whose
\* product carries the factor `scale' too many
MulNumbers(x, y, scale) ==
  IF x.k = "nan" \/ y.k = "nan" THEN NaN
  ELSE IF x.k = "inf" \/ y.k = "inf"
       THEN (IF Sgn(x.v) * Sgn(y.v) = 0 THEN NaN
             ELSE IF Sgn(x.v) * Sgn(y.v) > 0 THEN PosInf ELSE NegInf)
  ELSE Fin(MulDiv(x.v, y.v, scale))

FMul(a, b, scale) == MulNumbers(ToNumber(a), ToNumber(b), scale)

\* IEEE-754 quotient x * scale / y
DivNumbers(x, y, scale) ==
  IF x.k = "nan" \/ y.k = "nan" THEN NaN
  ELSE IF x.k = "inf" /\ y.k = "inf" THEN NaN
  ELSE IF x.k = "inf" THEN (IF x.v * (IF y.v < 0 THEN -1 ELSE 1) > 0 THEN PosInf ELSE NegInf)
  ELSE IF y.k = "inf" THEN Fin(0)
  ELSE IF y.v = 0 /\ x.v = 0 THEN (IF IsUnderflow(y) /\ ~IsUnderflow(x) THEN Fin(0) ELSE NaN)
  ELSE IF y.v = 0 THEN (IF x.v > 0 THEN PosInf ELSE NegInf)
  ELSE Fin(Sgn(y.v) * MulDiv(x.v, scale, Abs(y.v)))

FDiv(a, b, scale) == DivNumbers(ToNumber(a), ToNumber(b), scale)

----------------------------------------------------------------------------
(* Math.PI, Math.cos, Math.sin, Math.sqrt, Math.atan2 *)

PI     == 31416
TwoPi  == 2 * PI
HalfPi == PI \div 2

\* sum of the cosine series from the term `term' of index k on, y2 = y*y
RECURSIVE CosSeries(_, _, _)
CosSeries(term, k, y2) ==
  IF term = 0 THEN 0
  ELSE term + CosSeries(-MulDiv(term, y2, AngleScale * (2*k + 1) * (2*k + 2)),
                        k + 1, y2)

\* cosine of an angle in [0, pi/2]
CosQuadrant(y) == CosSeries(AngleScale, 0, MulDiv(y, y, AngleScale))

\* cosine of an angle in [0, pi]
CosHalfTurn(y) ==
  (IF y > HalfPi THEN -1 ELSE 1) * CosQuadrant(IF y > HalfPi THEN PI - y ELSE y)

\* cosine of an angle in [0, 2 pi)
CosTurn(m) == CosHalfTurn(IF m > PI THEN TwoPi - m ELSE m)

CosFix(x) == CosTurn(Abs(x) % TwoPi)

SinFix(x) == CosFix(x - HalfPi)

CosNumber(x) ==
  IF x.k # "fin" THEN NaN
  ELSE IF CosFix(x.v) = 0 THEN Underflow
  ELSE Fin(CosFix(x.v))

SinNumber(x) == IF x.k = "fin" THEN Fin(SinFix(x.v)) ELSE NaN

MathCos(a) == CosNumber(ToNumber(a))
MathSin(a) == SinNumber(ToNumber(a))

\* Newton's iteration on the integer r with r*r = v*AngleScale, from above
RECURSIVE SqrtNewton(_, _)
SqrtNewton(v, r) ==
  Let((r + MulDiv(v, AngleScale, r)) \div 2,
      LAMBDA next : IF next >= r THEN r ELSE SqrtNewton(v, next))

SqrtNumber(x) ==
  IF x.k = "nan" THEN NaN
  ELSE IF x.k = "inf" THEN (IF x.v > 0 THEN PosInf ELSE NaN)
  ELSE IF x.v < 0 THEN NaN
  ELSE IF x.v = 0 THEN Fin(0)
  ELSE Fin(SqrtNewton(x.v, Max(x.v, AngleScale)))

\* Math.sqrt of a ratio
MathSqrt(a) == SqrtNumber(ToNumber(a))

\* Newton's iteration on p with p*p = x*x + y*y, from above
RECURSIVE HypotNewton(_, _, _)
HypotNewton(x, y, p) ==
  Let((p + MulDiv(x, x, p) + MulDiv(y, y, p)) \div 2,
      LAMBDA next : IF next >= p THEN p ELSE HypotNewton(x, y, next))

SqrtSumSquaresNumbers(x, y) ==
  IF x.k = "nan" \/ y.k = "nan" THEN NaN
  ELSE IF x.k = "inf" \/ y.k = "inf" THEN PosInf
  ELSE IF x.v = 0 /\ y.v = 0 THEN Fin(0)
  ELSE Fin(HypotNewton(Abs(x.v), Abs(y.v), Abs(x.v) + Abs(y.v)))

\* Math.sqrt(x * x + y * y) of two lengths
SqrtSumSquares(a, b) == SqrtSumSquaresNumbers(ToNumber(a), ToNumber(b))

\* sum of the arctangent series from the power `pow' = u^(2k+1) on, u2 = u*u
RECURSIVE AtanSeries(_, _, _)
AtanSeries(pow, k, u2) ==
  IF pow = 0 THEN 0
  ELSE (pow \div (2*k + 1)) * (IF k % 2 = 0 THEN 1 ELSE -1)
       + AtanSeries(MulDiv(pow, u2, AngleScale), k + 1, u2)

\* arctangent of a ratio u in [-tan(pi/8), tan(pi/8)]
AtanSmall(u) == Sgn(u) * AtanSeries(Abs(u), 0, MulDiv(u, u, AngleScale))

\* arctangent of a ratio t in [0, 1]; above tan(pi/8) the argument is
\* reduced by atan(t) = pi/4 + atan((t - 1) / (t + 1))
AtanUnit(t) ==
  (IF 1000 * t > 414 * AngleScale THEN PI \div 4 ELSE 0)
  + AtanSmall(IF 1000 * t > 414 * AngleScale
              THEN MulDiv(t - AngleScale, AngleScale, t + AngleScale)
              ELSE t)

\* the angle in [0, pi/2] of the direction (ax, ay), ax, ay >= 0 and not both 0
AtanAcute(ay, ax, small) ==
  IF ay <= ax THEN small ELSE HalfPi - small

\* the angle in (-pi, pi] of the direction (x, y), from its acute angle
AtanQuadrant(y, x, acute) ==
  (IF y < 0 THEN -1 ELSE 1) * (IF x >= 0 THEN acute ELSE PI - acute)

\* Math.atan2(y, x) of two finite values
Atan2Fix(y, x) ==
  AtanQuadrant(y, x,
    IF y = 0 THEN 0
    ELSE AtanAcute(Abs(y), Abs(x),
                   AtanUnit(MulDiv(Min(Abs(y), Abs(x)), AngleScale, Max(Abs(y), Abs(x))))))

Atan2Numbers(y, x) ==
  IF y.k = "nan" \/ x.k = "nan" THEN NaN
  ELSE IF y.k = "inf" /\ x.k = "inf"
       THEN Fin(Sgn(y.v) * (IF x.v > 0 THEN PI \div 4 ELSE 3 * (PI \div 4)))
  ELSE IF y.k = "inf" THEN Fin(Sgn(y.v) * HalfPi)
  ELSE IF x.k = "inf" THEN Fin(IF x.v > 0 THEN 0 ELSE (IF y.v < 0 THEN -PI ELSE PI))
  ELSE IF y.v = 0 /\ (x.v < 0 \/ (x.v = 0 /\ IsNegZero(x)))
       THEN Fin(IF IsNegZero(y) THEN -PI ELSE PI)
  ELSE Fin(Atan2Fix(y.v, x.v))

MathAtan2(a, b) == Atan2Numbers(ToNumber(a), ToNumber(b))

DegToRadNumber(x) ==
  IF x.k = "fin" THEN Fin(MulDiv(MulDiv(x.v, PI, DegScale), 1, 180)) ELSE x

\* degrees * Math.PI / 180
DegToRad(a) == DegToRadNumber(ToNumber(a))

RadToDegNumber(x) ==
  IF x.k = "fin" THEN Fin(MulDiv(x.v * 180, DegScale, PI)) ELSE x

\* radians * 180 / Math.PI
RadToDeg(a) == RadToDegNumber(ToNumber(a))

----------------------------------------------------------------------------
(* geospatialTransform.js: constants and calibration state *)

WGS84_B  == 6356752   \* semi-minor axis 6356752.314245, metres
WGS84_A  == 6378137   \* semi-major axis, metres
WGS84_E2 == 67        \* first eccentricity squared 0.00669437999014, at AngleScale

METERS_PER_DEGREE_LAT == 110540

\* 111320 * Math.cos(latDegrees * Math.PI / 180), in metres per degree
metersPerDegreeLon(latDegrees) ==
  FMul(Fin(111320), MathCos(DegToRad(latDegrees)), AngleScale)

VARIABLES
  calibration,  \* the module-level calibration object
  held,         \* the object a caller holds from its last getCalibration()
  ret,          \* what the last call returned, threw and wrote to the console
  tasks,        \* where each startAR() call of main.js is suspended
  tilesetUrl,   \* main.js: let tilesetUrl = ''
  serverUrl,    \* remoteLogger.js: let serverUrl = null
  queue,        \* remoteLogger.js: let queue = []
  sending,      \* remoteLogger.js: let sending = false
  stamp,        \* how many entries send() has made: the next one's timestamp
  fetches,      \* the entries of the POSTs flush() has started and still awaits
  timers,       \* how many setTimeout(flush, 10) timers are pending
  posted,       \* every entry handed to fetch so far, in order
  failed,       \* the timestamps of the entries whose POST was rejected
  tilesRenderer,       \* tilesetLoader.js: let tilesRenderer = null
  tilesetOriginWgs84,  \* tilesetLoader.js: let tilesetOriginWgs84 = {...}
  promises,     \* the promise of each loadTileset() call: none, pending, resolved
  polls         \* the loadTileset() calls with a setTimeout(checkLoaded, 100) pending

\* the module variables of remoteLogger.js and of tilesetLoader.js
loggerVars == <<serverUrl, queue, sending, stamp, fetches, timers, posted, failed>>
loaderVars == <<tilesRenderer, tilesetOriginWgs84, promises, polls>>

vars == <<calibration, held, ret, tasks, tilesetUrl, loggerVars, loaderVars>>

InitCalibration ==
  [isCalibrated   |-> FALSE,
   originLat      |-> Fin(0),
   originLon      |-> Fin(0),
   originAlt      |-> Fin(0),
   headingDegrees |-> Fin(0),
   headingRad     |-> Fin(0)]

Vector3(x, y, z) == [x |-> x, y |-> y, z |-> z]

\* one console call: its level, its text and the value printed with it
Signal(level, msg, data) == [level |-> level, msg |-> msg, data |-> data]

\* the record of one completed call
Returned(op, args, value, console) ==
  [op |-> op, args |-> args, value |-> value, error |-> "none", console |-> console]

Threw(op, args, error) ==
  [op |-> op, args |-> args, value |-> Undefined, error |-> error, console |-> <<>>]

\* -headingDegrees * Math.PI / 180
HeadingRad(headingDegrees) == DegToRad(FNeg(headingDegrees))

setCalibrationOriginNoFlag(cal, lat, lon, alt, headingDegrees) ==
  [cal EXCEPT !.originLat      = lat,
              !.originLon      = lon,
              !.originAlt      = alt,
              !.headingDegrees = headingDegrees,
              !.headingRad     = HeadingRad(headingDegrees)]

setCalibrationOriginStaleHeading(cal, lat, lon, alt, headingDegrees) ==
  [cal EXCEPT !.originLat      = lat,
              !.originLon      = lon,
              !.originAlt      = alt,
              !.headingDegrees = headingDegrees,
              !.isCalibrated   = TRUE]

\* the calibration object after setCalibrationOrigin(lat, lon, alt, headingDegrees)
setCalibrationOrigin(cal, lat, lon, alt, headingDegrees) ==
  [cal EXCEPT !.originLat      = lat,
              !.originLon      = lon,
              !.originAlt      = alt,
              !.headingDegrees = headingDegrees,
              !.headingRad     = HeadingRad(headingDegrees),
              !.isCalibrated   = TRUE]

isCalibrated(cal) == cal.isCalibrated

getCalibrationAliased(cal) == [ref |-> "calibration", obj |-> cal]

\* getCalibration returns { ...calibration }: a fresh object with the same fields
getCalibration(cal) == [ref |-> "copy", obj |-> cal]

localXPlus(eastMeters, northMeters, cosH, sinH) ==
  FAdd(FMul(eastMeters, cosH, AngleScale), FMul(northMeters, sinH, AngleScale))

\* localX = eastMeters * cosH - northMeters * sinH
localX(eastMeters, northMeters, cosH, sinH) ==
  FSub(FMul(eastMeters, cosH, AngleScale), FMul(northMeters, sinH, AngleScale))

localZUnnegated(eastMeters, northMeters, cosH, sinH) ==
  FAdd(FMul(eastMeters, sinH, AngleScale), FMul(northMeters, cosH, AngleScale))

\* localZ = -(eastMeters * sinH + northMeters * cosH): north is -Z
localZ(eastMeters, northMeters, cosH, sinH) ==
  FNeg(FAdd(FMul(eastMeters, sinH, AngleScale), FMul(northMeters, cosH, AngleScale)))

\* the calibrated branch of wgs84ToLocal: the offset from the origin in ENU
\* metres, rotated by the heading into the local frame (+X right, +Y up, -Z forward)
localOffset(cal, lat, lon, alt) ==
  Let(FSub(lat, cal.originLat), LAMBDA deltaLat :
  Let(FSub(lon, cal.originLon), LAMBDA deltaLon :
  Let(FSub(alt, cal.originAlt), LAMBDA deltaAlt :
  Let(FMul(deltaLon, metersPerDegreeLon(cal.originLat), DegScale \div MeterScale),
      LAMBDA eastMeters :
  Let(FMul(deltaLat, Fin(METERS_PER_DEGREE_LAT), DegScale \div MeterScale),
      LAMBDA northMeters :
  Let(deltaAlt, LAMBDA upMeters :
  Let(MathCos(cal.headingRad), LAMBDA cosH :
  Let(MathSin(cal.headingRad), LAMBDA sinH :
    Vector3(localX(eastMeters, northMeters, cosH, sinH),
            upMeters,
            localZ(eastMeters, northMeters, cosH, sinH))
  ))))))))

wgs84ToLocalUnguarded(cal, lat, lon, alt) ==
  [value |-> localOffset(cal, lat, lon, alt), console |-> <<>>]

\* the value and console output of wgs84ToLocal(lat, lon, alt)
wgs84ToLocal(cal, lat, lon, alt) ==
  IF ~cal.isCalibrated
  THEN [value   |-> Vector3(Fin(0), Fin(0), Fin(0)),
        console |-> <<Signal("warn", "Not calibrated - returning zero vector", Undefined)>>]
  ELSE [value |-> localOffset(cal, lat, lon, alt), console |-> <<>>]

GeodeticPoint(lat, lon, alt) == [lat |-> lat, lon |-> lon, alt |-> alt]
EcefPoint(x, y, z)           == [x |-> x, y |-> y, z |-> z]

\* WGS84_A / Math.sqrt(1 - WGS84_E2 * sinLat * sinLat)
PrimeVerticalRadius(sinLat) ==
  FDiv(Meters(WGS84_A),
       MathSqrt(FSub(Fin(AngleScale),
                     FMul(FMul(Fin(WGS84_E2), sinLat, AngleScale), sinLat, AngleScale))),
       AngleScale)

\* one pass of the latitude loop:
\*   sinLat = sin(lat); N = ...; lat = atan2(z + E2 * N * sinLat, p)
LatitudeStep(lat, z, p) ==
  Let(MathSin(lat), LAMBDA sinLat :
  Let(PrimeVerticalRadius(sinLat), LAMBDA N :
    MathAtan2(FAdd(z, FMul(FMul(Fin(WGS84_E2), N, AngleScale), sinLat, AngleScale)), p)
  ))

RECURSIVE LatitudeLoopToConvergence(_, _, _, _)
LatitudeLoopToConvergence(i, lat, z, p) ==
  IF i < 5 /\ LatitudeStep(lat, z, p) # lat
  THEN Let(LatitudeStep(lat, z, p),
           LAMBDA next : LatitudeLoopToConvergence(i + 1, next, z, p))
  ELSE [i |-> i, lat |-> lat]

\* for (let i = 0; i < 5; i++) { ... }: the loop variables at its exit
RECURSIVE LatitudeLoop(_, _, _, _)
LatitudeLoop(i, lat, z, p) ==
  IF i < 5
  THEN Let(LatitudeStep(lat, z, p), LAMBDA next : LatitudeLoop(i + 1, next, z, p))
  ELSE [i |-> i, lat |-> lat]

ecefToWgs84(x, y, z) ==
  Let(SqrtSumSquares(x, y), LAMBDA p :
  Let(MathAtan2(y, x), LAMBDA lon :
  Let(MathAtan2(z, FMul(p, FSub(Fin(AngleScale), Fin(WGS84_E2)), AngleScale)),
      LAMBDA lat0 :
  Let(LatitudeLoop(0, lat0, z, p).lat, LAMBDA lat :
  Let(MathSin(lat), LAMBDA sinLat :
  Let(PrimeVerticalRadius(sinLat), LAMBDA N :
  Let(FSub(FDiv(p, MathCos(lat), AngleScale), N), LAMBDA alt :
    GeodeticPoint(RadToDeg(lat), RadToDeg(lon), alt)
  )))))))

wgs84ToEcef(lat, lon, alt) ==
  Let(DegToRad(lat), LAMBDA latRad :
  Let(DegToRad(lon), LAMBDA lonRad :
  Let(MathSin(latRad), LAMBDA sinLat :
  Let(MathCos(latRad), LAMBDA cosLat :
  Let(MathSin(lonRad), LAMBDA sinLon :
  Let(MathCos(lonRad), LAMBDA cosLon :
  Let(PrimeVerticalRadius(sinLat), LAMBDA N :
  Let(FMul(FMul(FAdd(N, alt), cosLat, AngleScale), cosLon, AngleScale), LAMBDA x :
  Let(FMul(FMul(FAdd(N, alt), cosLat, AngleScale), sinLon, AngleScale), LAMBDA y :
  Let(FMul(FAdd(FMul(N, FSub(Fin(AngleScale), Fin(WGS84_E2)), AngleScale), alt),
           sinLat, AngleScale), LAMBDA z :
    EcefPoint(x, y, z)
  ))))))))))

\* a JavaScript array with the elements of the sequence s
Array(s) == [k |-> "array", v |-> s]

ArrayGetOneBased(transformArray, i) ==
  IF 1 <= i /\ i <= Len(transformArray.v) THEN transformArray.v[i] ELSE Undefined

\* transformArray[i]: a read past the end of the array yields undefined
ArrayGet(transformArray, i) ==
  IF i + 1 <= Len(transformArray.v) THEN transformArray.v[i + 1] ELSE Undefined

\* the value or exception of getTilesetOriginFromTransform(transformArray);
\* indexing undefined instead of an array throws a TypeError
getTilesetOriginFromTransform(transformArray) ==
  IF transformArray.k = "undefined"
  THEN [value |-> Undefined, error |-> "TypeError"]
  ELSE Let(ArrayGet(transformArray, 12), LAMBDA ecefX :
       Let(ArrayGet(transformArray, 13), LAMBDA ecefY :
       Let(ArrayGet(transformArray, 14), LAMBDA ecefZ :
         [value |-> ecefToWgs84(ecefX, ecefY, ecefZ), error |-> "none"]
       )))

\* new THREE.Matrix4(): the identity, column-major
Matrix4 ==
  <<Fin(1), Fin(0), Fin(0), Fin(0),
    Fin(0), Fin(1), Fin(0), Fin(0),
    Fin(0), Fin(0), Fin(1), Fin(0),
    Fin(0), Fin(0), Fin(0), Fin(1)>>

\* matrix.setPosition(v): elements 12, 13, 14 become v.x, v.y, v.z
setPosition(matrix, v) ==
  [matrix EXCEPT ![13] = v.x, ![14] = v.y, ![15] = v.z]

\* the value and console output of computeTilesetTransform(tilesetOriginWgs84)
computeTilesetTransform(cal, originWgs84) ==
  IF ~cal.isCalibrated
  THEN [value   |-> Matrix4,
        console |-> <<Signal("warn", "Not calibrated - returning identity matrix", Undefined)>>]
  ELSE Let(wgs84ToLocal(cal, originWgs84.lat,
                        originWgs84.lon, originWgs84.alt),
           LAMBDA localPos :
             [value |-> setPosition(Matrix4, localPos.value), console |-> localPos.console])

\* the three lines debugCalibration() always logs
DebugHeader(cal) ==
  <<Signal("log", "Origin:", <<cal.originLat, cal.originLon, cal.originAlt>>),
    Signal("log", "Heading:", cal.headingDegrees),
    Signal("log", "Is calibrated:", cal.isCalibrated)>>

\* the console output of debugCalibration(), which returns nothing
debugCalibration(cal) ==
  IF cal.isCalibrated
  THEN Let(wgs84ToLocal(cal, FAdd(cal.originLat, Deg(0, 900)),
                        cal.originLon, cal.originAlt),
           LAMBDA testPoint :
             [value   |-> Undefined,
              console |-> DebugHeader(cal) \o testPoint.console
                          \o <<Signal("log", "Test: 100m north =>", testPoint.value)>>])
  ELSE [value |-> Undefined, console |-> DebugHeader(cal)]

----------------------------------------------------------------------------
(* The values the callers pass *)

\* (lat, lon, alt, headingDegrees) of the calibration calls: facing north
\* and east at (37, -122) and west given as -90, the default tileset origin
\* facing north-east, and calls with a NaN, an infinite and several
\* non-finite arguments
CalibrationInputs ==
  { <<Deg(37, 0), Deg(-122, 0), Meters(0), Deg(0, 0)>>,
    <<Deg(37, 0), Deg(-122, 0), Meters(0), Deg(90, 0)>>,
    <<Deg(37, 0), Deg(-122, 0), Meters(0), Deg(-90, 0)>>,
    <<Deg(-23, -262000), Deg(117, 778000), Meters(473), Deg(45, 0)>>,
    <<NaN, Deg(-122, 0), Meters(0), Deg(0, 0)>>,
    <<Deg(37, 0), PosInf, Meters(0), Deg(0, 0)>>,
    <<Deg(37, 0), Deg(-122, 0), NegInf, NaN>> }

\* (lat, lon, alt) of the projected points: the origins above, the point
\* 100 m north of (37, -122), and a point with an infinite longitude
PointInputs ==
  { <<Deg(37, 0), Deg(-122, 0), Meters(0)>>,
    <<Deg(37, 905), Deg(-122, 0), Meters(0)>>,
    <<Deg(-23, -262000), Deg(117, 778000), Meters(473)>>,
    <<Deg(37, 0), PosInf, Meters(0)>> }

\* (x, y, z) of the ECEF points: (0 N, 0 E, 0 m), (37 N, 122 W, 0 m), and
\* the north pole with x = +0 and with x = -0
EcefInputs ==
  { <<Meters(6378137), Meters(0), Meters(0)>>,
    <<Meters(-2702627), Meters(-4325107), Meters(3817393)>>,
    <<Meters(0), Meters(0), Meters(6356752)>>,
    <<NegZero, Meters(0), Meters(6356752)>> }

\* a column-major 4x4 transform with the translation (x, y, z)
Transform(x, y, z) == setPosition(Matrix4, [x |-> x, y |-> y, z |-> z])

\* the first n elements of it
Cut(matrix, n) == Array(SubSeq(matrix, 1, n))

\* a quarter turn about the Z axis with the translation (x, y, z)
Turned(x, y, z) ==
  [Transform(x, y, z) EXCEPT ![1] = Fin(0), ![2] = Fin(1), ![5] = Fin(-1), ![6] = Fin(0)]

\* the transform arrays handed to getTilesetOriginFromTransform: complete
\* (plain and turned), cut after 15, 12 and 0 elements, and missing
TransformInputs ==
  { Cut(Transform(Meters(6378137), Meters(0), Meters(0)), 16),
    Cut(Turned(Meters(6378137), Meters(0), Meters(0)), 16),
    Cut(Transform(Meters(6378137), Meters(0), Meters(0)), 15),
    Cut(Transform(Meters(6378137), Meters(0), Meters(0)), 12),
    Cut(Transform(Meters(6378137), Meters(0), Meters(0)), 0),
    Undefined }

\* (lat, lon, alt) of the tileset origins and of the points converted to ECEF
OriginInputs ==
  { <<Deg(0, 0), Deg(0, 0), Meters(0)>>,
    <<Deg(37, 905), Deg(-122, 0), Meters(0)>>,
    <<Deg(-23, -262000), Deg(117, 778000), Meters(473)>> }

\* (lat, lon, alt, heading) as parseFloat reads the fields of the form: two
\* complete forms, one without a latitude, one without altitude and heading
FormInputs ==
  { <<Deg(37, 0), Deg(-122, 0), Meters(0), Deg(90, 0)>>,
    <<Deg(37, 905), Deg(-122, 0), Meters(12), Deg(45, 0)>>,
    <<NaN, Deg(-122, 0), Meters(0), Deg(0, 0)>>,
    <<Deg(37, 0), Deg(-122, 0), NaN, NaN>> }

\* the tileset URL field of the form, as its characters (an address counts as
\* one): empty, blank, or an address with blanks around it
UrlInputs ==
  { <<>>,
    <<" ", " ">>,
    <<" ", "https://example.com/tileset.json", " ">> }

\* the startAR() calls that can be in flight together: the Enter AR button
\* stays enabled while a call awaits
MaxTasks == 2
Tasks == 1..MaxTasks

\* the loadTileset() calls made in a run
MaxLoads == 2
Loads == 1..MaxLoads

\* what a caller writes into the object it got from getCalibration()
HeldWrites == { <<"isCalibrated", FALSE>> }

----------------------------------------------------------------------------
(* The calls *)

\* const DEFAULT_TILESET_ORIGIN = { lat: -23.262, lon: 117.778, alt: 473 }
DEFAULT_TILESET_ORIGIN == GeodeticPoint(Deg(-23, -262000), Deg(117, 778000), Meters(473))

\* null
Null == [k |-> "null", v |-> 0]

Init ==
  /\ calibration = InitCalibration
  /\ held = [ref |-> "none", obj |-> Undefined]
  /\ ret = Returned("load", <<>>, Undefined, <<>>)
  /\ tasks = [t \in Tasks |-> "idle"]
  /\ tilesetUrl = <<>>
  /\ serverUrl = Null
  /\ queue = <<>>
  /\ sending = FALSE
  /\ stamp = 0
  /\ fetches = <<>>
  /\ timers = 0
  /\ posted = <<>>
  /\ failed = {}
  /\ tilesRenderer = Null
  /\ tilesetOriginWgs84 = DEFAULT_TILESET_ORIGIN
  /\ promises = [p \in Loads |-> "none"]
  /\ polls = {}

SetCalibrationOriginTorn(lat, lon, alt, headingDegrees) ==
  /\ calibration' = [calibration EXCEPT !.originLat    = lat,
                                        !.originLon    = lon,
                                        !.originAlt    = alt,
                                        !.isCalibrated = TRUE]
  /\ ret' = Returned("setCalibrationOrigin", <<lat, lon, alt, headingDegrees>>, Undefined,
                     <<Signal("log", "Calibration set:", calibration')>>)
  /\ UNCHANGED <<held, tasks>>
  /\ UNCHANGED <<tilesetUrl, loggerVars, loaderVars>>

SetCalibrationOrigin(lat, lon, alt, headingDegrees) ==
  /\ calibration' = setCalibrationOrigin(calibration, lat, lon, alt, headingDegrees)
  /\ ret' = Returned("setCalibrationOrigin", <<lat, lon, alt, headingDegrees>>, Undefined,
                     <<Signal("log", "Calibration set:", calibration')>>)
  /\ UNCHANGED <<held, tasks>>
  /\ UNCHANGED <<tilesetUrl, loggerVars, loaderVars>>

IsCalibrated ==
  /\ ret' = Returned("isCalibrated", <<>>, isCalibrated(calibration), <<>>)
  /\ UNCHANGED <<calibration, held, tasks>>
  /\ UNCHANGED <<tilesetUrl, loggerVars, loaderVars>>

GetCalibration ==
  /\ held' = getCalibration(calibration)
  /\ ret' = Returned("getCalibration", <<>>, held'.obj, <<>>)
  /\ UNCHANGED <<calibration, tasks>>
  /\ UNCHANGED <<tilesetUrl, loggerVars, loaderVars>>

\* the caller assigns to a field of the object getCalibration() gave it: the
\* write lands in that object, which is the module's own only if it was
\* handed out itself
WriteHeld(field, value) ==
  /\ held.ref # "none"
  /\ held' = [held EXCEPT !.obj = [held.obj EXCEPT ![field] = value]]
  /\ calibration' = IF held.ref = "copy"
                    THEN calibration
                    ELSE [calibration EXCEPT ![field] = value]
  /\ ret' = Returned("writeHeld", <<field, value>>, Undefined, <<>>)
  /\ UNCHANGED tasks
  /\ UNCHANGED <<tilesetUrl, loggerVars, loaderVars>>

Wgs84ToLocal(lat, lon, alt) ==
  /\ ret' = Let(wgs84ToLocal(calibration, lat, lon, alt), LAMBDA r :
                  Returned("wgs84ToLocal", <<lat, lon, alt>>, r.value, r.console))
  /\ UNCHANGED <<calibration, held, tasks>>
  /\ UNCHANGED <<tilesetUrl, loggerVars, loaderVars>>

ComputeTilesetTransform(lat, lon, alt) ==
  /\ ret' = Let(computeTilesetTransform(calibration, GeodeticPoint(lat, lon, alt)),
                LAMBDA r :
                  Returned("computeTilesetTransform", <<lat, lon, alt>>, r.value, r.console))
  /\ UNCHANGED <<calibration, held, tasks>>
  /\ UNCHANGED <<tilesetUrl, loggerVars, loaderVars>>

DebugCalibration ==
  /\ ret' = Let(debugCalibration(calibration), LAMBDA r :
                  Returned("debugCalibration", <<>>, r.value, r.console))
  /\ UNCHANGED <<calibration, held, tasks>>
  /\ UNCHANGED <<tilesetUrl, loggerVars, loaderVars>>

EcefToWgs84(x, y, z) ==
  /\ ret' = Returned("ecefToWgs84", <<x, y, z>>, ecefToWgs84(x, y, z), <<>>)
  /\ UNCHANGED <<calibration, held, tasks>>
  /\ UNCHANGED <<tilesetUrl, loggerVars, loaderVars>>

Wgs84ToEcef(lat, lon, alt) ==
  /\ ret' = Returned("wgs84ToEcef", <<lat, lon, alt>>, wgs84ToEcef(lat, lon, alt), <<>>)
  /\ UNCHANGED <<calibration, held, tasks>>
  /\ UNCHANGED <<tilesetUrl, loggerVars, loaderVars>>

GetTilesetOriginFromTransform(transformArray) ==
  /\ ret' = Let(getTilesetOriginFromTransform(transformArray), LAMBDA r :
                  IF r.error = "none"
                  THEN Returned("getTilesetOriginFromTransform", <<transformArray>>,
                                r.value, <<>>)
                  ELSE Threw("getTilesetOriginFromTransform", <<transformArray>>, r.error))
  /\ UNCHANGED <<calibration, held, tasks>>
  /\ UNCHANGED <<tilesetUrl, loggerVars, loaderVars>>

Next ==
  \/ \E c \in CalibrationInputs : SetCalibrationOrigin(c[1], c[2], c[3], c[4])
  \/ IsCalibrated
  \/ GetCalibration
  \/ \E w \in HeldWrites : WriteHeld(w[1], w[2])
  \/ \E q \in PointInputs : Wgs84ToLocal(q[1], q[2], q[3])
  \/ \E q \in OriginInputs : ComputeTilesetTransform(q[1], q[2], q[3])
  \/ DebugCalibration
  \/ \E e \in EcefInputs : EcefToWgs84(e[1], e[2], e[3])
  \/ \E q \in OriginInputs : Wgs84ToEcef(q[1], q[2], q[3])
  \/ \E t \in TransformInputs : GetTilesetOriginFromTransform(t)

Spec == Init /\ [][Next]_vars

----------------------------------------------------------------------------
(* main.js: the AR session.  startAR() and loadTilesetAndPosition() are
   async; every await hands control back to the event loop, where another
   click, or a call on the module, runs to completion before they resume. *)

\* parseFloat(field.value) || 0
OrZero(x) == IF x.k = "nan" \/ (x.k = "fin" /\ x.v = 0 /\ ~IsUnderflow(x)) THEN Fin(0) ELSE x

\* setStatus(text, type) and setArStatus(text)
Status(text, type) == Signal("status", text, type)

\* getTilesetOrigin()
getTilesetOrigin == tilesetOriginWgs84

\* String.prototype.trim, on the characters of a string
RECURSIVE TrimStart(_)
TrimStart(str) ==
  IF str # <<>> /\ Head(str) = " " THEN TrimStart(Tail(str)) ELSE str

RECURSIVE TrimEnd(_)
TrimEnd(str) ==
  IF str # <<>> /\ str[Len(str)] = " "
  THEN TrimEnd(SubSeq(str, 1, Len(str) - 1))
  ELSE str

trim(str) == TrimEnd(TrimStart(str))

StartARUncalibrated(t, urlField, lat, lon, altField, headingField) ==
  /\ tasks[t] = "idle"
  /\ tilesetUrl' = trim(urlField)
  /\ IF tilesetUrl' = <<>>
     THEN /\ ret' = Returned("startAR", <<urlField, lat, lon, altField, headingField>>,
                             Undefined, <<Status("Please enter a tileset URL", "error")>>)
          /\ UNCHANGED tasks
     ELSE IF isNaN(lat) \/ isNaN(lon)
     THEN /\ ret' = Returned("startAR", <<urlField, lat, lon, altField, headingField>>,
                             Undefined, <<Status("Please enter valid coordinates", "error")>>)
          /\ UNCHANGED tasks
     ELSE /\ ret' = Returned("startAR", <<urlField, lat, lon, altField, headingField>>,
                             Undefined, <<Status("Starting AR session...", "")>>)
          /\ tasks' = [tasks EXCEPT ![t] = "requestSession"]
  /\ UNCHANGED <<calibration, held, loggerVars, loaderVars>>

StartARCalibratesFirst(t, urlField, lat, lon, altField, headingField) ==
  /\ tasks[t] = "idle"
  /\ tilesetUrl' = trim(urlField)
  /\ calibration' = setCalibrationOrigin(calibration, lat, lon,
                                         OrZero(altField), OrZero(headingField))
  /\ IF tilesetUrl' = <<>>
     THEN /\ ret' = Returned("startAR", <<urlField, lat, lon, altField, headingField>>,
                             Undefined, <<Status("Please enter a tileset URL", "error")>>)
          /\ UNCHANGED tasks
     ELSE IF isNaN(lat) \/ isNaN(lon)
     THEN /\ ret' = Returned("startAR", <<urlField, lat, lon, altField, headingField>>,
                             Undefined, <<Status("Please enter valid coordinates", "error")>>)
          /\ UNCHANGED tasks
     ELSE /\ ret' = Returned("startAR", <<urlField, lat, lon, altField, headingField>>,
                             Undefined,
                             <<Signal("log", "Calibration set:", calibration')>>
                             \o debugCalibration(calibration').console
                             \o <<Status("Starting AR session...", "")>>)
          /\ tasks' = [tasks EXCEPT ![t] = "requestSession"]
  /\ UNCHANGED <<held, loggerVars, loaderVars>>

\* the click on Enter AR: startAR() up to its first await
StartAR(t, urlField, lat, lon, altField, headingField) ==
  /\ tasks[t] = "idle"
  /\ tilesetUrl' = trim(urlField)
  /\ IF tilesetUrl' = <<>>
     THEN /\ ret' = Returned("startAR", <<urlField, lat, lon, altField, headingField>>,
                             Undefined, <<Status("Please enter a tileset URL", "error")>>)
          /\ UNCHANGED <<calibration, tasks>>
     ELSE IF isNaN(lat) \/ isNaN(lon)
     THEN /\ ret' = Returned("startAR", <<urlField, lat, lon, altField, headingField>>,
                             Undefined, <<Status("Please enter valid coordinates", "error")>>)
          /\ UNCHANGED <<calibration, tasks>>
     ELSE /\ calibration' = setCalibrationOrigin(calibration, lat, lon,
                                                 OrZero(altField), OrZero(headingField))
          /\ ret' = Returned("startAR", <<urlField, lat, lon, altField, headingField>>,
                             Undefined,
                             <<Signal("log", "Calibration set:", calibration')>>
                             \o debugCalibration(calibration').console
                             \o <<Status("Starting AR session...", "")>>)
          /\ tasks' = [tasks EXCEPT ![t] = "requestSession"]
  /\ UNCHANGED <<held, loggerVars, loaderVars>>

\* navigator.xr.requestSession, setSession and requestReferenceSpace resolve:
\* startAR() goes on to loadTilesetAndPosition(), which awaits loadTileset
SessionGranted(t) ==
  /\ tasks[t] = "requestSession"
  /\ tasks' = [tasks EXCEPT ![t] = "loadTileset"]
  /\ ret' = Returned("startAR", <<>>, Undefined, <<Status("Loading tileset...", "")>>)
  /\ UNCHANGED <<calibration, held>>
  /\ UNCHANGED <<tilesetUrl, loggerVars, loaderVars>>

\* one of them rejects: the catch block of startAR()
SessionRefused(t) ==
  /\ tasks[t] = "requestSession"
  /\ tasks' = [tasks EXCEPT ![t] = "idle"]
  /\ ret' = Returned("startAR", <<>>, Undefined,
                     <<Signal("error", "Failed to start AR:", Undefined),
                       Status("Failed to start AR", "error")>>)
  /\ UNCHANGED <<calibration, held>>
  /\ UNCHANGED <<tilesetUrl, loggerVars, loaderVars>>

\* loadTileset resolves: loadTilesetAndPosition() reads the tileset origin and
\* projects it with the calibration as it is now
TilesetLoaded(t) ==
  /\ tasks[t] = "loadTileset"
  /\ tasks' = [tasks EXCEPT ![t] = "idle"]
  /\ ret' = Let(wgs84ToLocal(calibration, getTilesetOrigin.lat, getTilesetOrigin.lon,
                             getTilesetOrigin.alt),
                LAMBDA localPos :
                  Returned("loadTilesetAndPosition",
                           <<getTilesetOrigin.lat, getTilesetOrigin.lon, getTilesetOrigin.alt>>,
                           localPos.value,
                           <<Signal("log", "Tileset origin:", getTilesetOrigin)>>
                           \o localPos.console
                           \o <<Signal("log", "Tileset local position:", localPos.value)>>))
  /\ UNCHANGED <<calibration, held>>
  /\ UNCHANGED <<tilesetUrl, loggerVars, loaderVars>>

\* loadTileset rejects: the catch block of loadTilesetAndPosition()
TilesetFailed(t) ==
  /\ tasks[t] = "loadTileset"
  /\ tasks' = [tasks EXCEPT ![t] = "idle"]
  /\ ret' = Returned("loadTilesetAndPosition", <<>>, Undefined,
                     <<Signal("error", "Failed to load tileset:", Undefined)>>)
  /\ UNCHANGED <<calibration, held>>
  /\ UNCHANGED <<tilesetUrl, loggerVars, loaderVars>>

OnSessionEndClears ==
  /\ calibration' = InitCalibration
  /\ ret' = Returned("onSessionEnd", <<>>, Undefined, <<Status("AR session ended", "")>>)
  /\ UNCHANGED <<held, tasks>>
  /\ UNCHANGED <<tilesetUrl, loggerVars, loaderVars>>

\* the session's end event
OnSessionEnd ==
  /\ ret' = Returned("onSessionEnd", <<>>, Undefined, <<Status("AR session ended", "")>>)
  /\ UNCHANGED <<calibration, held, tasks>>
  /\ UNCHANGED <<tilesetUrl, loggerVars, loaderVars>>

SessionNext ==
  \/ \E t \in Tasks, u \in UrlInputs, c \in FormInputs :
       StartAR(t, u, c[1], c[2], c[3], c[4])
  \/ \E t \in Tasks : SessionGranted(t)
  \/ \E t \in Tasks : SessionRefused(t)
  \/ \E t \in Tasks : TilesetLoaded(t)
  \/ \E t \in Tasks : TilesetFailed(t)
  \/ OnSessionEnd
  \/ \E c \in FormInputs : SetCalibrationOrigin(c[1], c[2], c[3], c[4])
  \/ GetCalibration
  \/ \E q \in PointInputs : Wgs84ToLocal(q[1], q[2], q[3])
  \/ \E q \in OriginInputs : ComputeTilesetTransform(q[1], q[2], q[3])

SpecSession == Init /\ [][SessionNext]_vars

----------------------------------------------------------------------------
(* remoteLogger.js.  flush() is async: it hands one entry to fetch and is
   suspended until the POST settles (it is aborted after 2000 ms at the
   latest); send calls, flush timers and settled POSTs run one at a time, in
   any order. *)

\* the entries send() can make before the sends stop
MaxEntries == 4

\* the levels of the entries
Levels == { "info", "error" }

\* the url given to initRemoteLogger, as its characters (host and port count
\* as one): empty, an address, an address with a trailing slash
ServerInputs ==
  { <<>>,
    <<"http://192.168.1.100:8765">>,
    <<"http://192.168.1.100:8765", "/">> }

\* url.replace(/\/$/, '')
StripSlash(url) ==
  IF url # <<>> /\ url[Len(url)] = "/" THEN SubSeq(url, 1, Len(url) - 1) ELSE url

\* !serverUrl
NoServer(url) == url = Null \/ url = <<>>

\* the logger's variables as they are passed through send() and flush();
\* fetch holds the entry flush() hands to fetch, if it does
Logger(q, busy, n, fetch) == [queue |-> q, sending |-> busy, stamp |-> n, fetch |-> fetch]

flushUnguarded(q, busy, n) ==
  IF q = <<>>
  THEN Logger(q, busy, n, <<>>)
  ELSE Logger(Tail(q), TRUE, n, <<Head(q)>>)

\* flush() up to its await
flush(q, busy, n) ==
  IF busy \/ q = <<>>
  THEN Logger(q, busy, n, <<>>)
  ELSE Logger(Tail(q), TRUE, n, <<Head(q)>>)

\* send(level, args)
send(url, level, q, busy, n) ==
  IF NoServer(url)
  THEN Logger(q, busy, n, <<>>)
  ELSE flush(Append(q, [timestamp |-> n + 1, level |-> level]), busy, n + 1)

\* the logger's variables after a call that left them as the record r
LoggerBecomes(r) ==
  /\ queue' = r.queue
  /\ sending' = r.sending
  /\ stamp' = r.stamp
  /\ fetches' = fetches \o r.fetch
  /\ posted' = posted \o r.fetch

\* what the logger's actions leave alone
sessionVars == <<calibration, held, ret, tasks, tilesetUrl>>

InitRemoteLogger(url) ==
  /\ stamp < MaxEntries
  /\ serverUrl' = StripSlash(url)
  /\ LoggerBecomes(send(serverUrl', "success", queue, sending, stamp))
  /\ UNCHANGED <<timers, failed, sessionVars, loaderVars>>

\* rlog.info(msg), console.error(...) and the like
Send(level) ==
  /\ stamp < MaxEntries
  /\ LoggerBecomes(send(serverUrl, level, queue, sending, stamp))
  /\ UNCHANGED <<serverUrl, timers, failed, sessionVars, loaderVars>>

FetchSettlesStuck(ok) ==
  /\ fetches # <<>>
  /\ fetches' = Tail(fetches)
  /\ sending' = ~ok
  /\ timers' = IF ok /\ queue # <<>> THEN timers + 1 ELSE timers
  /\ failed' = IF ok THEN failed ELSE failed \cup {Head(fetches).timestamp}
  /\ UNCHANGED <<serverUrl, queue, stamp, posted, sessionVars, loaderVars>>

\* the POST settles, fulfilled (ok) or rejected: flush() after its await
FetchSettles(ok) ==
  /\ fetches # <<>>
  /\ fetches' = Tail(fetches)
  /\ sending' = FALSE
  /\ timers' = IF queue # <<>> THEN timers + 1 ELSE timers
  /\ failed' = IF ok THEN failed ELSE failed \cup {Head(fetches).timestamp}
  /\ UNCHANGED <<serverUrl, queue, stamp, posted, sessionVars, loaderVars>>

\* a setTimeout(flush, 10) timer fires
FlushTimer ==
  /\ timers > 0
  /\ timers' = timers - 1
  /\ LoggerBecomes(flush(queue, sending, stamp))
  /\ UNCHANGED <<serverUrl, failed, sessionVars, loaderVars>>

LoggerNext ==
  \/ \E url \in ServerInputs : InitRemoteLogger(url)
  \/ \E level \in Levels : Send(level)
  \/ \E ok \in BOOLEAN : FetchSettles(ok)
  \/ FlushTimer

SpecLogger == Init /\ [][LoggerNext]_vars

\* every POST settles (AbortSignal.timeout(2000) at the latest) and every
\* timer fires
SpecLoggerFair ==
  /\ SpecLogger
  /\ WF_vars(\E ok \in BOOLEAN : FetchSettles(ok))
  /\ WF_vars(FlushTimer)

----------------------------------------------------------------------------
(* tilesetLoader.js.  loadTileset() returns a promise and polls with
   setTimeout(checkLoaded, 100) until the renderer has its root; the calls
   on the module, the timers and the arrival of the root run one at a time,
   in any order. *)

\* the originOverride of a loadTileset() call: none, or a point
OverrideInputs == { Null, GeodeticPoint(Deg(37, 905), Deg(-122, 0), Meters(0)) }

\* tilesRenderer.stats.downloading at a getLoadingStats() call
DownloadingInputs == { 0, 2 }

\* new TilesRenderer(url): its root is not there yet
TilesRenderer(id) == [k |-> "TilesRenderer", id |-> id, root |-> FALSE]

\* a call of a method of the renderer
Call(method, renderer) == Signal("call", method, renderer.id)

\* the loadTileset() calls made so far
Loaded == { p \in Loads : promises[p] # "none" }

loadTilesetKeepsOrigin(origin, originOverride) ==
  IF originOverride # Null
  THEN [origin  |-> originOverride,
        console |-> <<Signal("log", "Using custom tileset origin:", originOverride)>>]
  ELSE [origin  |-> origin,
        console |-> <<Signal("log", "Using default tileset origin:", origin)>>]

\* loadTileset: if (originOverride) {...} else {...}
loadTilesetOrigin(origin, originOverride) ==
  IF originOverride # Null
  THEN [origin  |-> originOverride,
        console |-> <<Signal("log", "Using custom tileset origin:", originOverride)>>]
  ELSE [origin  |-> DEFAULT_TILESET_ORIGIN,
        console |-> <<Signal("log", "Using default tileset origin:", DEFAULT_TILESET_ORIGIN)>>]

\* checkLoaded(), run on the module's tilesRenderer as it is then
checkLoaded(renderer) ==
  IF renderer = Null THEN [error |-> "TypeError", console |-> <<>>, resolve |-> FALSE]
  ELSE IF renderer.root
  THEN [error   |-> "none",
        console |-> <<Call("update", renderer), Signal("log", "Tileset root ready", Undefined)>>,
        resolve |-> TRUE]
  ELSE [error |-> "none", console |-> <<Call("update", renderer)>>, resolve |-> FALSE]

\* loadTileset(url, parent, camera, originOverride), to the end of its first
\* checkLoaded()
LoadTileset(url, originOverride) ==
  /\ Loaded # Loads
  /\ tilesetOriginWgs84' = loadTilesetOrigin(tilesetOriginWgs84, originOverride).origin
  /\ tilesRenderer' = TilesRenderer(Cardinality(Loaded) + 1)
  /\ promises' = [promises EXCEPT ![Cardinality(Loaded) + 1] =
                     IF checkLoaded(tilesRenderer').resolve THEN "resolved" ELSE "pending"]
  /\ polls' = IF checkLoaded(tilesRenderer').resolve
              THEN polls
              ELSE polls \cup {Cardinality(Loaded) + 1}
  /\ ret' = Returned("loadTileset", <<url, originOverride>>, Cardinality(Loaded) + 1,
                     <<Signal("log", "Loading tileset from:", url)>>
                     \o loadTilesetOrigin(tilesetOriginWgs84, originOverride).console
                     \o <<Signal("log", "Tileset group added to parent", Undefined)>>
                     \o checkLoaded(tilesRenderer').console)
  /\ UNCHANGED <<calibration, held, tasks, tilesetUrl, loggerVars>>

\* the renderer has fetched tileset.json: tilesRenderer.root is there
RootLoads ==
  /\ tilesRenderer # Null
  /\ ~tilesRenderer.root
  /\ tilesRenderer' = [tilesRenderer EXCEPT !.root = TRUE]
  /\ UNCHANGED <<tilesetOriginWgs84, promises, polls, sessionVars, loggerVars>>

\* the setTimeout(checkLoaded, 100) timer of the call p fires
CheckLoaded(p) ==
  /\ p \in polls
  /\ IF checkLoaded(tilesRenderer).error # "none"
     THEN /\ ret' = Threw("checkLoaded", <<p>>, checkLoaded(tilesRenderer).error)
          /\ polls' = polls \ {p}
          /\ UNCHANGED promises
     ELSE IF checkLoaded(tilesRenderer).resolve
     THEN /\ ret' = Returned("checkLoaded", <<p>>, tilesRenderer,
                             checkLoaded(tilesRenderer).console)
          /\ polls' = polls \ {p}
          /\ promises' = [promises EXCEPT ![p] = "resolved"]
     ELSE /\ ret' = Returned("checkLoaded", <<p>>, Undefined,
                             checkLoaded(tilesRenderer).console)
          /\ UNCHANGED <<polls, promises>>
  /\ UNCHANGED <<tilesRenderer, tilesetOriginWgs84>>
  /\ UNCHANGED <<calibration, held, tasks, tilesetUrl, loggerVars>>

GetTilesetOrigin ==
  /\ ret' = Returned("getTilesetOrigin", <<>>, getTilesetOrigin, <<>>)
  /\ UNCHANGED <<calibration, held, tasks, tilesetUrl, loggerVars, loaderVars>>

\* setTilesetOrigin(lat, lon, alt)
SetTilesetOrigin(lat, lon, alt) ==
  /\ tilesetOriginWgs84' = GeodeticPoint(lat, lon, alt)
  /\ ret' = Returned("setTilesetOrigin", <<lat, lon, alt>>, Undefined,
                     <<Signal("log", "Tileset origin updated:", tilesetOriginWgs84')>>)
  /\ UNCHANGED <<tilesRenderer, promises, polls>>
  /\ UNCHANGED <<calibration, held, tasks, tilesetUrl, loggerVars>>

\* updateTileset(camera), from the render loop
UpdateTileset ==
  /\ ret' = Returned("updateTileset", <<>>, Undefined,
                     IF tilesRenderer # Null
                     THEN <<Call("setCamera", tilesRenderer), Call("update", tilesRenderer)>>
                     ELSE <<>>)
  /\ UNCHANGED <<calibration, held, tasks, tilesetUrl, loggerVars, loaderVars>>

\* getLoadingStats()
GetLoadingStats(downloading) ==
  /\ ret' = Returned("getLoadingStats", <<>>,
                     IF tilesRenderer = Null
                     THEN [loaded |-> 0, downloading |-> 0, loading |-> FALSE]
                     ELSE [loaded |-> 0, downloading |-> downloading,
                           loading |-> downloading > 0],
                     <<>>)
  /\ UNCHANGED <<calibration, held, tasks, tilesetUrl, loggerVars, loaderVars>>

\* disposeTileset(parent)
DisposeTileset ==
  /\ tilesRenderer' = Null
  /\ ret' = Returned("disposeTileset", <<>>, Undefined,
                     IF tilesRenderer # Null
                     THEN <<Call("dispose", tilesRenderer)>>
                     ELSE <<>>)
  /\ UNCHANGED <<tilesetOriginWgs84, promises, polls>>
  /\ UNCHANGED <<calibration, held, tasks, tilesetUrl, loggerVars>>

TilesetNext ==
  \/ \E o \in OverrideInputs : LoadTileset(<<"https://example.com/tileset.json">>, o)
  \/ RootLoads
  \/ \E p \in Loads : CheckLoaded(p)
  \/ GetTilesetOrigin
  \/ \E q \in OriginInputs : SetTilesetOrigin(q[1], q[2], q[3])
  \/ UpdateTileset
  \/ \E d \in DownloadingInputs : GetLoadingStats(d)
  \/ DisposeTileset

SpecTileset == Init /\ [][TilesetNext]_vars

\* every pending setTimeout(checkLoaded, 100) timer fires
SpecTilesetFair ==
  /\ SpecTileset
  /\ \A p \in Loads : WF_vars(CheckLoaded(p))

----------------------------------------------------------------------------
(* Properties *)

\* the calibration object that one call setCalibrationOrigin(lat, lon, alt,
\* headingDegrees) alone leaves behind
Applied(lat, lon, alt, headingDegrees) ==
  [isCalibrated   |-> TRUE,
   originLat      |-> lat,
   originLon      |-> lon,
   originAlt      |-> alt,
   headingDegrees |-> headingDegrees,
   headingRad     |-> DegToRad(FNeg(headingDegrees))]

\* x is a finite length within tol metres of target metres
Near(x, target, tol) ==
  x.k = "fin" /\ Abs(x.v - target * MeterScale) <= tol * MeterScale

ZeroVector == Vector3(Fin(0), Fin(0), Fin(0))

\* the point 100 m north of (37.0, -122.0, 0): 100 / 110540 = 0.000905 degrees
NorthPoint == <<Deg(37, 905), Deg(-122, 0), Meters(0)>>

\* C1: isCalibrated is false initially; every step keeps a calibrated module
\* calibrated; the flag changes only in a setCalibrationOrigin call, which
\* always leaves it true; and isCalibrated() returns the flag.
C1_NoDecalibration ==
  /\ calibration.isCalibrated = FALSE
  /\ [][ /\ calibration.isCalibrated => calibration'.isCalibrated
         /\ calibration'.isCalibrated # calibration.isCalibrated
              => ret'.op = "setCalibrationOrigin"
         /\ ret'.op = "setCalibrationOrigin" => calibration'.isCalibrated
         /\ ret'.op = "isCalibrated" => ret'.value = calibration'.isCalibrated ]_vars

\* isCalibrated() has answered true after a calibration
C1_Witness ==
  ret.op = "isCalibrated" /\ ret.value = TRUE /\ calibration.isCalibrated

\* C2: while no setCalibrationOrigin call has been made, wgs84ToLocal returns
\* the offset (0, 0, 0) and emits exactly one warning, whatever its arguments.
C2_UncalibratedZero ==
  (ret.op = "wgs84ToLocal" /\ ~calibration.isCalibrated)
    => /\ ret.value = ZeroVector
       /\ ret.error = "none"
       /\ Len(ret.console) = 1
       /\ ret.console[1].level = "warn"
       /\ ret.console[1].msg = "Not calibrated - returning zero vector"

\* wgs84ToLocal of the point 100 m north of (37, -122) on the uncalibrated module
C2_Witness ==
  /\ ret.op = "wgs84ToLocal"
  /\ ~calibration.isCalibrated
  /\ ret.args = NorthPoint
  /\ ret.value = ZeroVector

\* C3: after setCalibrationOrigin(37.0, -122.0, 0, 90), wgs84ToLocal of the
\* point 100 m north of the origin has x within 1 m of -100 and z within 1 m of 0.
C3_HeadingEastNorthIsLeft ==
  (/\ ret.op = "wgs84ToLocal"
   /\ calibration = Applied(Deg(37, 0), Deg(-122, 0), Meters(0), Deg(90, 0))
   /\ ret.args = NorthPoint)
    => Near(ret.value.x, -100, 1) /\ Near(ret.value.z, 0, 1)

\* C4: after setCalibrationOrigin(37.0, -122.0, 0, 0), wgs84ToLocal of the
\* point 100 m north of the origin has z within 1 m of -100 and x within 1 m of 0.
C4_HeadingNorthIsForward ==
  (/\ ret.op = "wgs84ToLocal"
   /\ calibration = Applied(Deg(37, 0), Deg(-122, 0), Meters(0), Deg(0, 0))
   /\ ret.args = NorthPoint)
    => Near(ret.value.z, -100, 1) /\ Near(ret.value.x, 0, 1)

\* the 100 m north point projected with heading 0, ahead of the viewer
C4_Witness ==
  /\ ret.op = "wgs84ToLocal"
  /\ calibration = Applied(Deg(37, 0), Deg(-122, 0), Meters(0), Deg(0, 0))
  /\ ret.args = NorthPoint
  /\ ret.value.z.k = "fin"
  /\ ret.value.z.v < 0

\* C5: after setCalibrationOrigin(lat, lon, alt, 0), for every origin,
\* wgs84ToLocal(lat, lon, alt) returns (0, 0, 0).
C5_OriginMapsToZero ==
  (/\ ret.op = "wgs84ToLocal"
   /\ calibration.isCalibrated
   /\ calibration.headingDegrees = Fin(0)
   /\ ret.args = <<calibration.originLat, calibration.originLon, calibration.originAlt>>)
    => ret.value = ZeroVector

\* C6: a setCalibrationOrigin call with a non-finite argument fails with
\* InvalidCalibrationInput and leaves the calibration as it was.
C6_NonFiniteRejected ==
  [][ (/\ ret'.op = "setCalibrationOrigin"
       /\ \E i \in 1..4 : ~isFinite(ret'.args[i]))
        => (ret'.error = "InvalidCalibrationInput" /\ calibration' = calibration) ]_vars

\* C7: getTilesetOriginFromTransform of an array of fewer than 16 elements
\* signals MalformedTransform and returns no point.
C7_ShortTransformRejected ==
  (/\ ret.op = "getTilesetOriginFromTransform"
   /\ ret.args[1].k = "array"
   /\ Len(ret.args[1].v) < 16)
    => (ret.error = "MalformedTransform" /\ ret.value = Undefined)

\* C8: after every setCalibrationOrigin call, whatever the calibration was
\* before, origin, heading and derived heading angle are those of this call
\* alone and the module is calibrated; repeating the call changes nothing.
C8_SetReplacesAll ==
  [][ ret'.op = "setCalibrationOrigin"
        => /\ calibration' = Applied(ret'.args[1], ret'.args[2], ret'.args[3], ret'.args[4])
           /\ (ret.op = "setCalibrationOrigin" /\ ret.args = ret'.args)
                => calibration' = calibration ]_vars

\* a call has replaced a calibration with another heading, which a caller
\* still holds a copy of
C8_Witness ==
  /\ ret.op = "setCalibrationOrigin"
  /\ held.ref = "copy"
  /\ held.obj.isCalibrated
  /\ held.obj.headingDegrees # calibration.headingDegrees
  /\ held.obj.originAlt # calibration.originAlt

\* the calibrations one call alone can leave, and the initial one
SingleCallStates ==
  {InitCalibration}
    \cup { Applied(c[1], c[2], c[3], c[4]) : c \in FormInputs }
    \cup { Applied(c[1], c[2], OrZero(c[3]), OrZero(c[4])) : c \in FormInputs }

\* C9: whenever wgs84ToLocal, getCalibration, computeTilesetTransform or the
\* resumed loadTilesetAndPosition has read the calibration, in any
\* interleaving with setCalibrationOrigin and startAR, the calibration it
\* read is the one a single setCalibrationOrigin call leaves (or the initial
\* one), and what it returned is what that calibration gives.
C9_ReadsSeeOneCall ==
  (/\ ret.op \in {"wgs84ToLocal", "getCalibration", "computeTilesetTransform",
                  "loadTilesetAndPosition"}
   /\ ret.op = "loadTilesetAndPosition" => ret.args # <<>>)
    => /\ calibration \in SingleCallStates
       /\ ret.op = "getCalibration" => ret.value \in SingleCallStates
       /\ ret.op \in {"wgs84ToLocal", "loadTilesetAndPosition"}
            => \E s \in SingleCallStates :
                 ret.value = wgs84ToLocal(s, ret.args[1], ret.args[2], ret.args[3]).value

\* loadTilesetAndPosition has resumed and projected the tileset origin with a
\* calibration that no startAR() sets (it rejects a NaN latitude): the
\* calibration was replaced while the call was suspended
C9_Witness ==
  /\ ret.op = "loadTilesetAndPosition"
  /\ ret.args # <<>>
  /\ calibration.isCalibrated
  /\ calibration.originLat = NaN

\* C10: every call other than setCalibrationOrigin, and every write to the
\* object getCalibration returned, leaves all fields of the calibration as
\* they were, so later calls observe the same calibration.
C10_OnlySetMutates ==
  [][ ret'.op # "setCalibrationOrigin" => calibration' = calibration ]_vars

\* a caller has cleared isCalibrated in the object getCalibration gave it,
\* and the module is still calibrated
C10_Witness ==
  /\ ret.op = "writeHeld"
  /\ held.obj.isCalibrated = FALSE
  /\ calibration.isCalibrated

\* how many lines of a console output carry the text msg
CountSignals(console, msg) ==
  Cardinality({ i \in 1..Len(console) : console[i].msg = msg })

\* C11: in the session flow a startAR() call leaves idle only in the step
\* that makes exactly one setCalibrationOrigin call; its continuations run in
\* order (requestSession, then loadTileset) and never set the calibration;
\* so the wgs84ToLocal call of loadTilesetAndPosition always finds the module
\* calibrated and never takes the uncalibrated branch.
C11_SessionCalibratesFirst ==
  [][ /\ \A t \in Tasks :
           /\ (tasks[t] = "idle" /\ tasks'[t] # "idle")
                => /\ tasks'[t] = "requestSession"
                   /\ ret'.op = "startAR"
                   /\ CountSignals(ret'.console, "Calibration set:") = 1
                   /\ calibration'.isCalibrated
           /\ (tasks[t] # "idle" /\ tasks'[t] # tasks[t])
                => /\ calibration' = calibration
                   /\ CountSignals(ret'.console, "Calibration set:") = 0
           /\ (tasks'[t] = "loadTileset" /\ tasks[t] # "loadTileset")
                => tasks[t] = "requestSession"
      /\ (ret'.op = "loadTilesetAndPosition" /\ ret'.args # <<>>)
           => /\ \E t \in Tasks : tasks[t] = "loadTileset" /\ tasks'[t] = "idle"
              /\ calibration.isCalibrated
              /\ \A i \in 1..Len(ret'.console) : ret'.console[i].level # "warn" ]_vars

\* loadTilesetAndPosition has projected the tileset origin to a point away
\* from the local origin
C11_Witness ==
  /\ ret.op = "loadTilesetAndPosition"
  /\ ret.args # <<>>
  /\ calibration.isCalibrated
  /\ ret.value # ZeroVector

\* C12: the end of an XR session leaves isCalibrated and every calibration
\* field as they were during the session.
C12_SessionEndKeepsCalibration ==
  [][ ret'.op = "onSessionEnd" => calibration' = calibration ]_vars

\* a session has ended and the module is still calibrated
C12_Witness ==
  /\ ret.op = "onSessionEnd"
  /\ calibration.isCalibrated
  /\ calibration.headingDegrees = Deg(45, 0)

\* the operations of the transform core named by the no-throw contract
CoreOps ==
  {"setCalibrationOrigin", "isCalibrated", "wgs84ToLocal", "ecefToWgs84",
   "wgs84ToEcef", "getTilesetOriginFromTransform"}

\* the exceptions a call can end with
Exceptions == {"TypeError"}

\* C13: no call of setCalibrationOrigin, isCalibrated, wgs84ToLocal,
\* ecefToWgs84, wgs84ToEcef or getTilesetOriginFromTransform ends by throwing
\* an exception, whatever its arguments.
C13_CoreNeverThrows ==
  ret.op \in CoreOps => ret.error \notin Exceptions

\* C14: for every 16-element array, getTilesetOriginFromTransform returns
\* ecefToWgs84 of its elements 12, 13 and 14, whatever the other elements are.
C14_OriginIsTranslation ==
  (/\ ret.op = "getTilesetOriginFromTransform"
   /\ ret.args[1].k = "array"
   /\ Len(ret.args[1].v) = 16)
    => ret = Returned("getTilesetOriginFromTransform", ret.args,
                      ecefToWgs84(ret.args[1].v[13], ret.args[1].v[14], ret.args[1].v[15]),
                      <<>>)

\* the origin of a turned transform has been read: its rotation part differs
\* from the identity and the point is the one of its translation
C14_Witness ==
  /\ ret.op = "getTilesetOriginFromTransform"
  /\ ret.args[1].k = "array"
  /\ Len(ret.args[1].v) = 16
  /\ ret.args[1].v[2] = Fin(1)
  /\ ret.value.lat.k = "fin"

\* the flat-Earth reference: metres east and north of the origin, with the
\* length of a degree of longitude taken at the origin's latitude
ReferenceEast(cal, lon) ==
  FMul(FSub(lon, cal.originLon),
       FMul(Fin(111320), MathCos(DegToRad(cal.originLat)), AngleScale),
       DegScale \div MeterScale)

ReferenceNorth(cal, lat) ==
  FMul(FSub(lat, cal.originLat), Fin(110540), DegScale \div MeterScale)

\* cosine and sine of H, the sign-flipped stored heading
ReferenceCosH(cal) == MathCos(DegToRad(FNeg(cal.headingDegrees)))
ReferenceSinH(cal) == MathSin(DegToRad(FNeg(cal.headingDegrees)))

C16_HeadingInRange ==
  calibration.headingDegrees.k = "fin"
    => (0 <= calibration.headingDegrees.v /\ calibration.headingDegrees.v < 360 * DegScale)

\* C18: wgs84ToEcef(0, 0, 0) returns exactly (6378137, 0, 0); ecefToWgs84 of
\* that point, and getTilesetOriginFromTransform of a 16-element transform
\* with that translation, return latitude 0, longitude 0, altitude 0.
C18_EquatorFixedPoint ==
  /\ (ret.op = "wgs84ToEcef" /\ ret.args = <<Deg(0, 0), Deg(0, 0), Meters(0)>>)
       => ret.value = EcefPoint(Meters(6378137), Meters(0), Meters(0))
  /\ (ret.op = "ecefToWgs84" /\ ret.args = <<Meters(6378137), Meters(0), Meters(0)>>)
       => ret.value = GeodeticPoint(Deg(0, 0), Deg(0, 0), Meters(0))
  /\ (/\ ret.op = "getTilesetOriginFromTransform"
      /\ ret.args[1].k = "array"
      /\ Len(ret.args[1].v) = 16
      /\ SubSeq(ret.args[1].v, 13, 15) = <<Meters(6378137), Meters(0), Meters(0)>>)
       => ret.value = GeodeticPoint(Deg(0, 0), Deg(0, 0), Meters(0))

\* wgs84ToEcef(0, 0, 0) has returned a point on the positive X axis
C18_Witness ==
  /\ ret.op = "wgs84ToEcef"
  /\ ret.args = <<Deg(0, 0), Deg(0, 0), Meters(0)>>
  /\ ret.value.x.v > 0
  /\ ret.value.y = Fin(0)

\* C19: for every ECEF input with x = y = 0, ecefToWgs84 returns longitude 0
\* and none of lat, lon, alt is NaN.
C19_PolarAxis ==
  (/\ ret.op = "ecefToWgs84"
   /\ ret.args[1].k = "fin" /\ ret.args[1].v = 0
   /\ ret.args[2].k = "fin" /\ ret.args[2].v = 0)
    => /\ ret.value.lon.k = "fin"
       /\ ret.value.lon.v = 0
       /\ ret.value.lat.k # "nan"
       /\ ret.value.alt.k # "nan"

\* the (x, y, z) that a completed call handed to ecefToWgs84
EcefArguments(r) ==
  IF r.op = "ecefToWgs84" THEN r.args
  ELSE <<ArrayGet(r.args[1], 12), ArrayGet(r.args[1], 13), ArrayGet(r.args[1], 14)>>

\* the passes the latitude loop of ecefToWgs84(x, y, z) makes before it exits
LatitudePasses(x, y, z) ==
  Let(SqrtSumSquares(x, y), LAMBDA p :
    LatitudeLoop(0,
                 MathAtan2(z, FMul(p, FSub(Fin(AngleScale), Fin(WGS84_E2)), AngleScale)),
                 z, p).i)

\* C20: every call of ecefToWgs84, directly or from
\* getTilesetOriginFromTransform, has returned after exactly 5 passes of its
\* latitude loop, for finite and NaN inputs alike.
C20_FiveLatitudePasses ==
  (\/ ret.op = "ecefToWgs84"
   \/ ret.op = "getTilesetOriginFromTransform" /\ ret.args[1].k = "array")
    => /\ LatitudePasses(EcefArguments(ret)[1], EcefArguments(ret)[2],
                         EcefArguments(ret)[3]) = 5
       /\ ret.error = "none"

\* ecefToWgs84 has run on elements read past the end of a 12-element array:
\* the loop has made its passes on NaN
C20_Witness ==
  /\ ret.op = "getTilesetOriginFromTransform"
  /\ ret.args[1].k = "array"
  /\ Len(ret.args[1].v) = 12
  /\ ret.value.lat = NaN

\* the form of a startAR() call is bad: its URL is empty once trimmed, or its
\* latitude or longitude did not parse
BadForm(args) ==
  trim(args[1]) = <<>> \/ isNaN(args[2]) \/ isNaN(args[3])

C22_OnePostInOrder ==
  [][ /\ Len(fetches') <= 1
      /\ sending' <=> fetches' # <<>>
      /\ posted' # posted
           => /\ ~sending
              /\ sending'
              /\ Len(posted') = Len(posted) + 1
      /\ \A i, j \in 1..Len(posted') :
           i < j => posted'[i].timestamp < posted'[j].timestamp
      /\ \A i \in 1..Len(posted'), j \in 1..Len(queue') :
           posted'[i].timestamp < queue'[j].timestamp ]_vars

\* a send call has started a POST itself while a flush timer was pending and
\* another entry waited in the queue
C22_Witness ==
  /\ Len(posted) >= 2
  /\ fetches # <<>>
  /\ queue # <<>>
  /\ timers > 0

\* C23: under the fair scheduling of POST settlements and timers, with or
\* without failing POSTs, the logger ends up and stays drained (queue empty,
\* sending false, nothing in flight) with every enqueued entry handed to
\* fetch exactly once; sending always returns to false; and an entry whose
\* POST failed is never handed to fetch again.
C23_LoggerDrains ==
  /\ <>[](/\ queue = <<>>
          /\ ~sending
          /\ fetches = <<>>
          /\ Len(posted) = stamp
          /\ \A n \in 1..stamp : Cardinality({ i \in 1..Len(posted) : posted[i].timestamp = n }) = 1)
  /\ (sending ~> ~sending)
  /\ (queue # <<>> ~> queue = <<>>)
  /\ [](\A n \in failed : Cardinality({ i \in 1..Len(posted) : posted[i].timestamp = n }) = 1)

\* the sends have stopped, a POST has failed, and the logger is drained
C23_Witness ==
  /\ stamp = MaxEntries
  /\ failed # {}
  /\ Len(posted) = MaxEntries
  /\ queue = <<>>
  /\ ~sending

\* tilesRenderer.root is there
RootAvailable == tilesRenderer # Null /\ tilesRenderer.root

\* C24: the promise of a loadTileset() call is resolved only in a step that
\* finds tilesRenderer.root non-null, and with the renderer; a poll that
\* finds the root missing sets its timer again; no promise is ever rejected;
\* a pending promise is resolved eventually if the root eventually is there
\* for good; and while the root has never been there no promise is resolved.
C24_ResolvesWhenRootAvailable ==
  /\ [][ \A p \in Loads :
           /\ (promises'[p] = "resolved" /\ promises[p] # "resolved")
                => /\ RootAvailable'
                   /\ ret'.value = tilesRenderer'
           /\ (ret'.op = "checkLoaded" /\ ret'.args = <<p>> /\ ~RootAvailable)
                => /\ promises'[p] = "pending"
                   /\ ret'.error = "none" => p \in polls' ]_vars
  /\ [](\A p \in Loads : promises[p] # "rejected")
  /\ \A p \in Loads :
       [](promises[p] = "pending" => (<>[]RootAvailable => <>(promises[p] = "resolved")))
  /\ \A p \in Loads :
       ([]~RootAvailable) => [](promises[p] # "resolved")

\* C25: the tileset origin is set by loadTileset and setTilesetOrigin alone,
\* the later call winning: loadTileset with an override makes it equal to
\* the override, loadTileset without one makes it the default origin
\* (-23.262, 117.778, 473) whatever it was, setTilesetOrigin makes it its
\* arguments, before or after loading; getTilesetOrigin returns it, and it
\* is never null.
C25_OriginFollowsLastCall ==
  [][ /\ ret'.op = "loadTileset"
           => tilesetOriginWgs84' = IF ret'.args[2] # Null
                                    THEN ret'.args[2]
                                    ELSE GeodeticPoint(Deg(-23, -262000), Deg(117, 778000),
                                                       Meters(473))
      /\ ret'.op = "setTilesetOrigin"
           => tilesetOriginWgs84' = GeodeticPoint(ret'.args[1], ret'.args[2], ret'.args[3])
      /\ ret'.op \notin {"loadTileset", "setTilesetOrigin"}
           => tilesetOriginWgs84' = tilesetOriginWgs84
      /\ ret'.op = "getTilesetOrigin" => ret'.value = tilesetOriginWgs84
      /\ tilesetOriginWgs84' # Null ]_vars

\* a second loadTileset() call, made without an override, has put the
\* default origin back
C25_Witness ==
  /\ ret.op = "loadTileset"
  /\ ret.value = 2
  /\ ret.args[2] = Null
  /\ tilesetOriginWgs84 = DEFAULT_TILESET_ORIGIN
  /\ promises[1] = "resolved"

\* C26: disposeTileset leaves no renderer, and nothing changes when there
\* was none; without a renderer updateTileset calls nothing and
\* getLoadingStats reports loading false; and no checkLoaded poll and no
\* updateTileset call ends with a TypeError, whenever disposeTileset ran.
C26_DisposalIsSafe ==
  [][ /\ ret'.op = "disposeTileset"
           => /\ tilesRenderer' = Null
              /\ tilesRenderer = Null => (ret'.console = <<>> /\ UNCHANGED loaderVars)
      /\ (ret'.op = "updateTileset" /\ tilesRenderer = Null)
           => (ret'.console = <<>> /\ UNCHANGED loaderVars)
      /\ (ret'.op = "getLoadingStats" /\ tilesRenderer = Null)
           => ~ret'.value.loading
      /\ ret'.op \in {"checkLoaded", "updateTileset"}
           => ret'.error \notin Exceptions ]_vars

====
